---- MODULE Spec2Model ----
(***************************************************************************)
(* Entity resolution and merge pipeline of src/src/datacleaning:           *)
(* process_batch (pipeline.py) driving candidate retrieval, the merge      *)
(* agent (merge_agent.py), the SQLite persistence layer (db.py) and the    *)
(* in-memory embedding index (embedding_store.py).                         *)
(*                                                                         *)
(* Encoding.  Python None is NULL for strings, NoId for organization ids   *)
(* and NoPk for pk_unique_id.  uuid4() is the fresh counter nextId.  Row   *)
(* indices inside row_assignments are 0-based as in the code; sequences    *)
(* are 1-based, so row j of a group is group[j + 1].  A row_assignments of *)
(* None and one of [] are both the empty sequence: the code only ever      *)
(* tests it with "not out.row_assignments".                                *)
(***************************************************************************)
EXTENDS Integers, Sequences, FiniteSets, TLC

VARIABLES
    rows,                     \* the input rows of process_batch (list[ScrapedRow])
    limit_groups,             \* the limit_groups argument of process_batch (NoLimit when None)
    run,                      \* number of the process_batch call in progress
    pc,                       \* position inside process_batch
    db,                       \* the committed database: organizations, organization_specialties,
                              \* organization_sources and processed_rows (the idempotency ledger)
    store,                    \* embedding_store._store: sequence of [id, emb]
    cache,                    \* identity_embedding._embed_cache: the cached texts, oldest first
    nextId,                   \* next value uuid4() returns
    items,                    \* process_batch: the ordered groups, each a sequence of rows
    gi,                       \* process_batch: index of the group being processed
    current_org,              \* process_batch: id of the linked record (NoId when None)
    candidates,               \* process_batch: sequence of candidate organization ids
    decision,                 \* process_batch: the MergeDecision of the current group
    group_id,                 \* process_batch: the organization_group_id generated for a split
    di,                       \* process_batch: index i of the draft being persisted (0-based)
    ri,                       \* process_batch: rows of the current draft already recorded
    org_id,                   \* process_batch: id returned by the last upsert_organization
    metrics,                  \* rows_processed, new_organizations, appended_to_existing, rate_limit_hit
    hist                      \* history of the run, used only to state the properties

vars == <<rows, limit_groups, run, pc, db, store, cache, nextId, items, gi, current_org, candidates,
          decision, group_id, di, ri, org_id, metrics, hist>>

----------------------------------------------------------------------------
(* Bounds of the model *)

\* process_batch calls made one after the other on the same input
MaxRuns == 2
\* rows of the input batch
MaxRows == 2
\* drafts in a payload of the judgment service
MaxDrafts == 2

(* Program constants *)

EMBEDDING_SIMILARITY_THRESHOLD_PCT == 78
MAX_CANDIDATES_FOR_AGENT == 5
SEARCH_TOP_K == 10
EMBED_CACHE_MAX == 2000
\* the bounds of a reliability score and the longest explanation
RELIABILITY_MIN == 0
RELIABILITY_MAX == 10
EXPLANATION_MAX == 500

NULL == "NULL"
NoId == 0
NoPk == -1
\* limit_groups = None
NoLimit == -1
\* reliability_score = None; a score is the one-element sequence of its value
NoScore == <<>>
\* reliability_explanation = None; a text is <<leading whitespace, body,
\* trailing whitespace>>, the number of characters of each part
NoText == <<>>
\* an identifier the judgment service made up: no record ever has it
BogusId == NoId - 1

----------------------------------------------------------------------------
(* Sequence helpers *)

Min(a, b) == IF a < b THEN a ELSE b

Max(a, b) == IF a > b THEN a ELSE b

Range(s) == {s[i] : i \in DOMAIN s}

RECURSIVE SeqSum(_)
SeqSum(s) == IF s = <<>> THEN 0 ELSE Head(s) + SeqSum(Tail(s))

Take(s, n) == SubSeq(s, 1, IF n < Len(s) THEN n ELSE Len(s))

\* the sequences without repetition, of length 1..n, over the set S
RECURSIVE DistinctSeqs(_, _)
DistinctSeqs(S, n) ==
    IF n = 0 THEN {<<>>}
    ELSE LET shorter == DistinctSeqs(S, n - 1)
         IN  shorter \cup {Append(q[1], q[2]) : q \in {p \in shorter \X S : p[2] \notin Range(p[1])}}

----------------------------------------------------------------------------
(* ScrapedRow (models.py): the fields the pipeline reads *)

\* specialties is a set: the code takes set() of it and the table holds
\* unique pairs; procedure is a list, as are the facts written from it
Row(url, ct, pk, mongo, name, phone, specs, procs) ==
    [source_url |-> url, content_table_id |-> ct, pk_unique_id |-> pk, mongo_db |-> mongo,
     name |-> name, phone |-> phone, specialties |-> specs, procedure |-> procs]

\* The rows an input batch is made of: two rows of one group that share a
\* source tag, a row of a second group that names the same organization, and
\* a keyless row that repeats the (source_url, content_table_id) of the first
\* and carries a source tag of its own.
RowUniverse ==
    { Row("u1", "c1", 1, "m1", "a", NULL, {"s1"}, <<"p1">>),
      Row("u2", NULL, 1, "m1", "a", "p", {"s2"}, <<"p1", "p2">>),
      Row("u3", "c1", 2, NULL, "a", NULL, {}, <<>>),
      Row("u1", "c1", NoPk, "m2", "b", "p", {"s1"}, <<"p1">>) }

Batches == {b \in DistinctSeqs(RowUniverse, MaxRows) : Len(b) >= 1}

\* the values of limit_groups: None, or a number that cuts at least one group
LimitChoices == {NoLimit} \cup (0..(MaxRows - 1))

----------------------------------------------------------------------------
(* Identity text (identity_embedding.py).  A text is the sequence of its
   non-empty parts; the " | " that joins them carries no information. *)

\* build_identity_text(row): name, address parts, then the primary contact
build_identity_text(row) ==
    (IF row.name # NULL THEN <<row.name>> ELSE <<>>)
    \o (IF row.phone # NULL THEN <<row.phone>> ELSE <<>>)

\* build_identity_text_from_org(org): the same parts, read from the columns
\* get_all_organizations_for_embedding selects; no contact column is selected
build_identity_text_from_org(org) ==
    IF org.canonical_name # NULL THEN <<org.canonical_name>> ELSE <<>>

(* The embedding service: a fixed vector per text.  Texts that share the
   name and differ by the contact are close (cosine 0.8); texts of different
   names are far apart (cosine at most 0.36). *)
EmbeddingOf(text) ==
    IF text = <<>> THEN <<6, 0, 8>>
    ELSE IF text[1] = "a" THEN (IF Len(text) = 1 THEN <<10, 0, 0>> ELSE <<8, 0, 6>>)
    ELSE (IF Len(text) = 1 THEN <<0, 10, 0>> ELSE <<0, 8, 6>>)

----------------------------------------------------------------------------
(* Embedding index (embedding_store.py) *)

Dot(a, b) == SeqSum([i \in DOMAIN a |-> a[i] * b[i]])

\* math.sqrt on the sums of squares the model's vectors have (integer root)
ISqrt(x) == CHOOSE r \in 0..x : r * r <= x /\ (r + 1) * (r + 1) > x

\* _cosine_similarity, in hundredths; a zero norm is floored to 1e-10 and the
\* dot product with a zero vector is 0, so the quotient is 0
cosine_similarity(a, b) ==
    LET na == ISqrt(Dot(a, a))
        nb == ISqrt(Dot(b, b))
    IN  IF na = 0 \/ nb = 0 THEN 0 ELSE (Dot(a, b) * 100) \div (na * nb)

\* scored.sort(key=lambda x: -x[1]): a stable sort by descending score (an
\* entry goes before the entries after it that score the same or less)
RECURSIVE SortByScore(_)
SortByScore(scored) ==
    IF scored = <<>> THEN <<>>
    ELSE LET first == Head(scored)
             sorted == SortByScore(Tail(scored))
             above == Cardinality({k \in DOMAIN sorted : sorted[k].score > first.score})
         IN  SubSeq(sorted, 1, above) \o <<first>> \o SubSeq(sorted, above + 1, Len(sorted))

\* a search that slices the entries in the order of the store
search_similar_unsorted(st, embedding, top_k) ==
    IF st = <<>> THEN <<>>
    ELSE LET scored == [i \in DOMAIN st |->
                          [id |-> st[i].id, score |-> cosine_similarity(embedding, st[i].emb)]]
         IN  Take(scored, top_k)

\* search_similar(embedding, top_k): the top_k entries of the store by similarity
search_similar(st, embedding, top_k) ==
    IF st = <<>> THEN <<>>
    ELSE LET scored == [i \in DOMAIN st |->
                          [id |-> st[i].id, score |-> cosine_similarity(embedding, st[i].emb)]]
         IN  Take(SortByScore(scored), top_k)

\* an upsert that stores nothing
upsert_embedding_skip(st, organization_id, embedding) == st

\* an upsert that appends without dropping the id's entries
upsert_embedding_append(st, organization_id, embedding) ==
    Append(st, [id |-> organization_id, emb |-> embedding])

\* upsert_embedding(organization_id, embedding): drop the id's entries, append
upsert_embedding(st, organization_id, embedding) ==
    Append(SelectSeq(st, LAMBDA e : e.id # organization_id),
           [id |-> organization_id, emb |-> embedding])

----------------------------------------------------------------------------
(* Persistence layer (db.py).  The database is a record of five tables:
     organizations            set of [id, canonical_name, organization_group_id]
     organization_specialties set of [organization_id, specialty]
     organization_facts       sequence of [organization_id, fact_type, value]
     organization_sources     sequence of [organization_id, source_url, content_table_id, mongo_db]
     processed_rows           sequence of [source_url, content_table_id, organization_id]
   organizations also has the columns reliability_score and
   reliability_explanation.
   The sequences are tables whose primary key is a fresh uuid4(): an
   insert appends a row.  Every operator below ends with conn.commit(), so
   its result is the committed database. *)

EmptyDb ==
    [organizations |-> {}, organization_specialties |-> {}, organization_facts |-> <<>>,
     organization_sources |-> <<>>, processed_rows |-> <<>>]

OrgIds(d) == {o.id : o \in d.organizations}

SpecialtiesOf(d, id) ==
    {s.specialty : s \in {t \in d.organization_specialties : t.organization_id = id}}

\* the values of the facts of a record, in the order of the table
FactsOf(d, id) ==
    LET mine == SelectSeq(d.organization_facts, LAMBDA f : f.organization_id = id)
    IN  [k \in DOMAIN mine |-> mine[k].value]

\* str.strip() on the strings of the model: "sx " is a padded value and " "
\* is a string of whitespace only
Strip(str) ==
    CASE str = "sx " -> "sx"
      [] str = " "   -> ""
      [] OTHER       -> str

\* "for p in merged.procedure: if p: INSERT ... p.strip()": the rows inserted
\* for a list of values
FactRows(id, fact_type, values) ==
    LET kept == SelectSeq(values, LAMBDA v : v # "")
    IN  [k \in DOMAIN kept |->
            [organization_id |-> id, fact_type |-> fact_type, value |-> Strip(kept[k])]]

\* len(text)
TextLen(text) == IF text = NoText THEN 0 ELSE text[1] + text[2] + text[3]

\* text[:n]
Truncate(text, n) ==
    LET lead == Min(text[1], n)
        body == Min(text[2], n - lead)
        trail == Min(text[3], n - lead - body)
    IN  <<lead, body, trail>>

\* _str_or_none: None for None and for a blank string, else the stripped string
str_or_none(text) ==
    IF text = NoText \/ text[2] = 0 THEN NoText ELSE <<0, text[2], 0>>

\* max(0.0, min(10.0, x))
ClampScore(x) == Max(RELIABILITY_MIN, Min(RELIABILITY_MAX, x))

\* _reliability_score: None stays None, a number is clamped to 0..10
reliability_score(val) == IF val = NoScore THEN NoScore ELSE <<ClampScore(val[1])>>

\* _merged_to_org_values: the columns of the organizations row of a draft
merged_to_org_values(merged, id) ==
    [id |-> id, canonical_name |-> merged.canonical_name,
     organization_group_id |-> merged.organization_group_id,
     reliability_score |-> reliability_score(merged.reliability_score),
     reliability_explanation |-> str_or_none(merged.reliability_explanation)]

\* update_reliability: the score clamped, the explanation stripped and cut
update_reliability(d, organization_id, score, explanation) ==
    LET expl == str_or_none(explanation)
        cut == IF TextLen(expl) > EXPLANATION_MAX THEN Truncate(expl, EXPLANATION_MAX) ELSE expl
    IN  [d EXCEPT !.organizations =
            {IF o.id = organization_id
             THEN [o EXCEPT !.reliability_score = reliability_score(score),
                            !.reliability_explanation = cut]
             ELSE o : o \in d.organizations}]

\* INSERT INTO organization_sources ... ON CONFLICT(organization_id, source_url,
\* content_table_id) DO UPDATE SET mongo_db: a NULL content_table_id conflicts
\* with no row (NULLs are distinct in a UNIQUE index)
upsert_source(sources, id, row) ==
    LET hit == {i \in DOMAIN sources :
                  /\ sources[i].organization_id = id
                  /\ sources[i].source_url = row.source_url
                  /\ row.content_table_id # NULL
                  /\ sources[i].content_table_id = row.content_table_id}
    IN  IF hit # {}
        THEN [i \in DOMAIN sources |->
                IF i \in hit THEN [sources[i] EXCEPT !.mongo_db = row.mongo_db] ELSE sources[i]]
        ELSE Append(sources, [organization_id |-> id, source_url |-> row.source_url,
                              content_table_id |-> row.content_table_id,
                              mongo_db |-> row.mongo_db])

RECURSIVE upsert_sources(_, _, _)
upsert_sources(sources, id, source_rows) ==
    IF source_rows = <<>> THEN sources
    ELSE upsert_sources(upsert_source(sources, id, Head(source_rows)), id, Tail(source_rows))

\* an upsert that does not delete the child rows the record has
upsert_organization_append(d, merged, source_rows, existing_org_id, fresh) ==
    LET id == IF existing_org_id # NoId THEN existing_org_id ELSE fresh
        values == merged_to_org_values(merged, id)
        orgs == IF existing_org_id # NoId
                THEN {IF o.id = id THEN values ELSE o : o \in d.organizations}
                ELSE d.organizations \cup {values}
        specs == d.organization_specialties
                 \cup {[organization_id |-> id, specialty |-> Strip(s)] :
                          s \in merged.specialties \ {""}}
        facts == d.organization_facts \o FactRows(id, "procedure", merged.procedure)
    IN  [d EXCEPT !.organizations = orgs,
                  !.organization_specialties = specs,
                  !.organization_facts = facts,
                  !.organization_sources = upsert_sources(@, id, source_rows)]

\* upsert_organization(conn, merged, source_rows, existing_org_id); fresh is
\* the value of uuid4().  The UPDATE of an id no row has changes nothing.
\* The child rows of the id are deleted, then one row is inserted for each
\* value that is not the empty string, stripped (INSERT OR IGNORE for the
\* specialties, whose table holds unique pairs).
upsert_organization(d, merged, source_rows, existing_org_id, fresh) ==
    LET id == IF existing_org_id # NoId THEN existing_org_id ELSE fresh
        values == merged_to_org_values(merged, id)
        orgs == IF existing_org_id # NoId
                THEN {IF o.id = id THEN values ELSE o : o \in d.organizations}
                ELSE d.organizations \cup {values}
        specs == {s \in d.organization_specialties : s.organization_id # id}
                 \cup {[organization_id |-> id, specialty |-> Strip(s)] :
                          s \in merged.specialties \ {""}}
        facts == SelectSeq(d.organization_facts, LAMBDA f : f.organization_id # id)
                 \o FactRows(id, "procedure", merged.procedure)
    IN  [d EXCEPT !.organizations = orgs,
                  !.organization_specialties = specs,
                  !.organization_facts = facts,
                  !.organization_sources = upsert_sources(@, id, source_rows)]

\* the id upsert_organization returns
upsert_organization_id(existing_org_id, fresh) ==
    IF existing_org_id # NoId THEN existing_org_id ELSE fresh

\* the key of a row in processed_rows: content_table_id or ""
LedgerKey(source_url, content_table_id) ==
    <<source_url, IF content_table_id = NULL THEN "" ELSE content_table_id>>

RowKey(row) == LedgerKey(row.source_url, row.content_table_id)

EntryKey(e) == <<e.source_url, e.content_table_id>>

\* a plain INSERT: the row is added whatever the table holds
record_processed_insert(ledger, source_url, content_table_id, organization_id) ==
    Append(ledger, [source_url |-> LedgerKey(source_url, content_table_id)[1],
                    content_table_id |-> LedgerKey(source_url, content_table_id)[2],
                    organization_id |-> organization_id])

\* record_processed: INSERT OR REPLACE under UNIQUE (source_url, content_table_id)
record_processed(ledger, source_url, content_table_id, organization_id) ==
    LET key == LedgerKey(source_url, content_table_id)
    IN  Append(SelectSeq(ledger, LAMBDA e : EntryKey(e) # key),
               [source_url |-> key[1], content_table_id |-> key[2],
                organization_id |-> organization_id])

\* get_processed_organization_id: the organization ids recorded for a pair
get_processed_organization_id(ledger, source_url, content_table_id) ==
    {e.organization_id : e \in {x \in Range(ledger) :
                                   EntryKey(x) = LedgerKey(source_url, content_table_id)}}

\* get_organization_by_mongo_db: SELECT ... JOIN ... WHERE s.mongo_db = ? LIMIT 1
\* has no ORDER BY: any joined row may be the one returned
get_organization_by_mongo_db(d, mongo_db) ==
    {s.organization_id : s \in {x \in Range(d.organization_sources) :
                                   x.mongo_db = mongo_db /\ x.organization_id \in OrgIds(d)}}

\* get_candidates: the ids that name a record, in the order given
get_candidates(d, org_ids) == SelectSeq(org_ids, LAMBDA id : id \in OrgIds(d))

\* get_all_organizations_for_embedding, in id order
RECURSIVE SetToSeqById(_)
SetToSeqById(S) ==
    IF S = {} THEN <<>>
    ELSE LET first == CHOOSE o \in S : \A p \in S : o.id <= p.id
         IN  <<first>> \o SetToSeqById(S \ {first})

get_all_organizations_for_embedding(d) == SetToSeqById(d.organizations)

----------------------------------------------------------------------------
(* Grouping (parser.py, pipeline.py) *)

RECURSIVE SortedSeq(_)
SortedSeq(S) ==
    IF S = {} THEN <<>>
    ELSE LET least == CHOOSE k \in S : \A m \in S : k <= m
         IN  <<least>> \o SortedSeq(S \ {least})

\* the groups in the order group_by_pk_unique_id makes them: that of the
\* first row of each key
RECURSIVE GroupItemsUnsorted(_)
GroupItemsUnsorted(rs) ==
    IF rs = <<>> THEN <<>>
    ELSE <<SelectSeq(rs, LAMBDA r : r.pk_unique_id = rs[1].pk_unique_id)>>
         \o GroupItemsUnsorted(SelectSeq(rs, LAMBDA r : r.pk_unique_id # rs[1].pk_unique_id))

\* group_by_pk_unique_id followed by the ordering of process_batch: keyed
\* groups in ascending key order, then the group of the keyless rows
GroupItems(rs) ==
    LET keys == SortedSeq({rs[i].pk_unique_id : i \in DOMAIN rs} \ {NoPk})
        keyed == [k \in DOMAIN keys |-> SelectSeq(rs, LAMBDA r : r.pk_unique_id = keys[k])]
        keyless == SelectSeq(rs, LAMBDA r : r.pk_unique_id = NoPk)
    IN  IF keyless = <<>> THEN keyed ELSE Append(keyed, keyless)

\* items = items[:limit_groups] when limit_groups is not None
LimitItems(its, limit) == IF limit = NoLimit THEN its ELSE Take(its, limit)

----------------------------------------------------------------------------
(* Embedding cache (identity_embedding.py) *)

\* an eviction step that removes nothing
embed_cache_evict_never(c) == c

\* _embed_cache_evict: a full cache loses its oldest-inserted half
embed_cache_evict(c) ==
    IF Len(c) < EMBED_CACHE_MAX THEN c
    ELSE SubSeq(c, (EMBED_CACHE_MAX \div 2) + 1, Len(c))

\* embed_identity after a successful call: evict, then store the new key
embed_cache_store(c, key) == Append(embed_cache_evict(c), key)

\* what a call of an external service can do
ServiceOutcomes == {"ok", "rate_limit", "error"}

\* the outcomes of embed_identity(text): a cached text makes no call
EmbedOutcomes(c, text) == IF text \in Range(c) THEN {"cached"} ELSE ServiceOutcomes

----------------------------------------------------------------------------
(* Merge agent (merge_agent.py) *)

AllIndices(n) == [j \in 1..n |-> j - 1]

\* the rows of a group named by a list of 0-based indices, out-of-range ones dropped
RowsAt(group, indices) ==
    LET valid == SelectSeq(indices, LAMBDA j : 0 <= j /\ j < Len(group))
    IN  [k \in DOMAIN valid |-> group[valid[k] + 1]]

\* the union of the specialties of some rows
UnionSpecialties(rs) == UNION {rs[k].specialties : k \in DOMAIN rs}

\* list(dict.fromkeys(...)): the first occurrence of each value, in order
RECURSIVE Dedup(_)
Dedup(values) ==
    IF values = <<>> THEN <<>>
    ELSE LET front == Dedup(SubSeq(values, 1, Len(values) - 1))
             last == values[Len(values)]
         IN  IF last \in Range(front) THEN front ELSE Append(front, last)

\* the procedures of some rows, one after the other
RECURSIVE ConcatProcedure(_)
ConcatProcedure(rs) ==
    IF rs = <<>> THEN <<>> ELSE Head(rs).procedure \o ConcatProcedure(Tail(rs))

UnionProcedure(rs) == Dedup(ConcatProcedure(rs))

(* Reliability in a reply of the judgment service.  A score of the reply is
   [kind, value]: null (or missing), a number (or a string float() reads),
   a NaN, a value float() rejects with TypeError or ValueError ("text"), or
   an integer too large for a float ("huge"), for which float() raises
   OverflowError.  An explanation of the reply is
   [kind, text, truthy]: null, a string, or a value that is not a string,
   whose str() is text. *)

\* "s = float(score); max(0.0, min(10.0, s))", None when float() fails;
\* min(10.0, nan) is 10.0
normalize_score(raw) ==
    CASE raw.kind = "number"           -> <<ClampScore(raw.value)>>
      [] raw.kind = "nan"              -> <<RELIABILITY_MAX>>
      [] raw.kind \in {"null", "text"} -> NoScore

\* float(score) raises OverflowError, which "except (TypeError, ValueError)"
\* does not catch
normalize_score_raises(raw) == raw.kind = "huge"

\* a value that is not a string becomes str(value)[:500], or None when
\* falsy; a string longer than 500 is cut to 500
normalize_explanation(raw) ==
    CASE raw.kind = "null"  -> NoText
      [] raw.kind = "other" -> IF raw.truthy THEN Truncate(raw.text, EXPLANATION_MAX)
                               ELSE NoText
      [] OTHER              -> IF TextLen(raw.text) > EXPLANATION_MAX
                               THEN Truncate(raw.text, EXPLANATION_MAX) ELSE raw.text

\* compute_reliability_for_org: (score, explanation) of the reply, or
\* (None, None) when the call or the normalisation failed with something
\* else than a rate limit
compute_reliability_for_org(outcome, reply) ==
    IF outcome = "ok" /\ ~normalize_score_raises(reply.reliability_score)
    THEN <<normalize_score(reply.reliability_score),
           normalize_explanation(reply.reliability_explanation)>>
    ELSE <<NoScore, NoText>>

\* _set_reliability_on_merged: both fields are set when there is a score
set_reliability_on_merged(merged, result) ==
    IF result[1] # NoScore
    THEN [merged EXCEPT !.reliability_score = result[1],
                        !.reliability_explanation = result[2]]
    ELSE merged

\* _merge_rows_with_agent after the reply was parsed: the default draft for an
\* empty merged_organizations, the default row_assignments, the enrichment
\* of each draft from its assigned rows
merge_rows_with_agent(group, payload) ==
    LET n == Len(group)
        empty == payload.merged_organizations = <<>>
        merged0 == IF empty
                   THEN <<[canonical_name |-> group[1].name, organization_group_id |-> NULL,
                           specialties |-> {}, procedure |-> <<>>,
                           reliability_score |-> NoScore,
                           reliability_explanation |-> NoText]>>
                   ELSE [i \in DOMAIN payload.merged_organizations |->
                           [payload.merged_organizations[i] EXCEPT
                              !.reliability_score = normalize_score(@),
                              !.reliability_explanation = normalize_explanation(@)]]
        ra0 == IF empty THEN <<AllIndices(n)>> ELSE payload.row_assignments
        ra == IF ra0 = <<>> \/ Len(ra0) # Len(merged0) THEN <<AllIndices(n)>> ELSE ra0
        enriched == [i \in DOMAIN merged0 |->
                       LET indices == IF i <= Len(ra) THEN ra[i] ELSE <<>>
                           assigned == RowsAt(group, indices)
                           fromRows == UnionSpecialties(assigned)
                           procedure == UnionProcedure(assigned)
                       IN  [merged0[i] EXCEPT
                              !.specialties = IF fromRows # {} THEN fromRows ELSE @,
                              !.procedure = IF procedure # <<>> THEN procedure ELSE @]]
    IN  [existing_organization_id |-> payload.existing_organization_id,
         merged_organizations |-> enriched,
         row_assignments |-> ra]

\* a draft that takes only the name of the row
row_to_merged_organization_name_only(row) ==
    [canonical_name |-> IF row.name # NULL THEN row.name ELSE "Unknown",
     organization_group_id |-> NULL,
     specialties |-> {},
     procedure |-> <<>>,
     reliability_score |-> NoScore,
     reliability_explanation |-> NoText]

\* row_to_merged_organization: the draft of the path that skips the agent
row_to_merged_organization(row) ==
    [canonical_name |-> IF row.name # NULL THEN row.name ELSE "Unknown",
     organization_group_id |-> NULL,
     specialties |-> row.specialties,
     procedure |-> row.procedure,
     reliability_score |-> NoScore,
     reliability_explanation |-> NoText]

(* The replies of the judgment service to a group of n rows.  The service is
   free in what it returns; the model draws the reply from these shapes. *)

\* row_assignments: missing, one list of all rows, a split, an overlapping
\* and incomplete split, a list with an out-of-range index
AssignChoices(n) ==
    { <<>>, <<AllIndices(n)>>, <<<<0>>, <<n - 1>>>>, <<<<0>>, <<0>>>>, <<<<0, n>>>> }

\* the list fields of a draft of the reply: a padded value, a string of
\* whitespace and an empty string
LlmSpecialties == {{"sx ", " ", ""}}

LlmProcedure == <<"sx ", " ", "">>

\* the reliability of the replies of process_batch: a score above the range
\* and an explanation of 501 characters
LlmReliability ==
    [reliability_score |-> [kind |-> "number", value |-> 15],
     reliability_explanation |-> [kind |-> "str", text |-> <<0, 501, 0>>, truthy |-> TRUE]]

\* organization_group_id of the drafts: null on every draft, or, in a reply
\* that splits the rows of a new organization, set by the service on the
\* first draft only
LlmGroupIds(nd) ==
    {[k \in 1..nd |-> NULL]} \cup
    (IF nd > 1 THEN {[k \in 1..nd |-> IF k = 1 THEN "gx" ELSE NULL]} ELSE {})

JudgePayloads(group, cands) ==
    { [existing_organization_id |-> q[1],
       merged_organizations |->
           [k \in DOMAIN q[2] |-> [canonical_name |-> group[1].name,
                                   organization_group_id |-> q[2][k],
                                   specialties |-> q[4], procedure |-> LlmProcedure,
                                   reliability_score |-> LlmReliability.reliability_score,
                                   reliability_explanation |->
                                       LlmReliability.reliability_explanation]],
       row_assignments |-> q[3]] :
      q \in { r \in UNION { ({NoId, BogusId} \cup Range(cands)) \X LlmGroupIds(nd)
                               \X AssignChoices(Len(group)) \X LlmSpecialties :
                            nd \in 0..MaxDrafts } :
                 (\E k \in DOMAIN r[2] : r[2][k] # NULL) =>
                     (r[1] = NoId /\ r[3] = <<<<0>>, <<Len(group) - 1>>>>) } }

----------------------------------------------------------------------------
(* Errors (api_errors.py).  An exception is named by its class. *)

\* is_rate_limit_error: RateLimitError, or APIStatusError with status 429
is_rate_limit_error(exc) == exc \in {"RateLimitError", "APIStatusError429"}

\* embed_identity / embed_identity_batch: any exception of the embedding
\* call, a RateLimitError included, is re-raised as RuntimeError
embed_identity_raises(outcome) == "RuntimeError"

\* what client.chat.completions.create raises in the judgment calls
judgment_raises(outcome) == IF outcome = "rate_limit" THEN "RateLimitError" ELSE "OtherError"

----------------------------------------------------------------------------
(* process_batch (pipeline.py) *)

ZeroMetrics ==
    [rows_processed |-> 0, new_organizations |-> 0, appended_to_existing |-> 0,
     rate_limit_hit |-> FALSE]

NoDecision ==
    [existing_organization_id |-> NoId, merged_organizations |-> <<>>, row_assignments |-> <<>>]

Terminal == {"done", "halted", "raised"}

\* a handler that returns IngestMetrics(0, 0, 0, rate_limit_hit=True), as the
\* handler of the bootstrap step does
HaltedMetricsZero(m) == [ZeroMetrics EXCEPT !.rate_limit_hit = TRUE]

\* a handler that returns the counters without setting rate_limit_hit
HaltedMetricsNoFlag(m) == m

\* the metrics returned by the rate-limit branch of the handler of a group
HaltedMetrics(m) == [m EXCEPT !.rate_limit_hit = TRUE]

\* a loop that passes existing_id to upsert_organization for every draft
UseExistingAlways(i, existing_id) == existing_id

\* "Only first merged org can update an existing org": use_existing
UseExisting(i, existing_id) == IF i = 0 /\ existing_id # NoId THEN existing_id ELSE NoId

\* indices and assigned_rows of draft i (0-based) in the persistence loop
AssignedRows(dec, i, group) ==
    LET indices == IF dec.row_assignments # <<>> /\ i < Len(dec.row_assignments)
                   THEN dec.row_assignments[i + 1]
                   ELSE AllIndices(Len(group))
        assigned == RowsAt(group, indices)
    IN  IF assigned = <<>> THEN <<group[1]>> ELSE assigned

\* draft i as persisted: a draft of a split with no organization_group_id
\* takes the generated one
DraftToPersist(dec, i, gid) ==
    LET merged == dec.merged_organizations[i + 1]
    IN  IF Len(dec.merged_organizations) > 1 /\ merged.organization_group_id = NULL
        THEN [merged EXCEPT !.organization_group_id = gid]
        ELSE merged

\* a retrieval without the cap on the number of candidates
CloseCandidatesUncapped(d, st, embedding) ==
    LET similar == search_similar(st, embedding, SEARCH_TOP_K)
        close == SelectSeq(similar, LAMBDA x : x.score >= EMBEDDING_SIMILARITY_THRESHOLD_PCT)
    IN  get_candidates(d, [k \in DOMAIN close |-> close[k].id])

\* close = [... if score >= EMBEDDING_SIMILARITY_THRESHOLD][:MAX_CANDIDATES_FOR_AGENT],
\* then get_candidates on the ids
CloseCandidates(d, st, embedding) ==
    LET similar == search_similar(st, embedding, SEARCH_TOP_K)
        close == Take(SelectSeq(similar,
                                LAMBDA x : x.score >= EMBEDDING_SIMILARITY_THRESHOLD_PCT),
                      MAX_CANDIDATES_FOR_AGENT)
    IN  get_candidates(d, [k \in DOMAIN close |-> close[k].id])

\* bootstrap_embedding_store after a successful batch call: one upsert per record
RECURSIVE BootstrapStore(_, _)
BootstrapStore(st, orgs) ==
    IF orgs = <<>> THEN st
    ELSE BootstrapStore(
             upsert_embedding(st, Head(orgs).id,
                              EmbeddingOf(build_identity_text_from_org(Head(orgs)))),
             Tail(orgs))

NoHist ==
    [prev |-> "none", run_db |-> EmptyDb, group_db |-> EmptyDb, group_store |-> <<>>,
     group_metrics |-> ZeroMetrics, cause |-> "none", boot_rate_limit |-> FALSE,
     inserts |-> 0, updates |-> 0, group_updates |-> 0, upserted |-> {},
     retrieval |-> "none", agent_called |-> FALSE, group_written |-> {}, order |-> <<>>,
     scored |-> <<>>, top_k |-> 0]

Init ==
    /\ rows \in Batches
    /\ limit_groups \in LimitChoices
    /\ run = 0
    /\ pc = "init"
    /\ db = EmptyDb
    /\ store = <<>>
    /\ cache = <<>>
    /\ nextId = 1
    /\ items = <<>>
    /\ gi = 0
    /\ current_org = NoId
    /\ candidates = <<>>
    /\ decision = NoDecision
    /\ group_id = NULL
    /\ di = 0
    /\ ri = 0
    /\ org_id = NoId
    /\ metrics = ZeroMetrics
    /\ hist = NoHist

\* the locals of the loop body, as they are before a group is entered
ResetGroupLocals ==
    /\ current_org' = NoId
    /\ candidates' = <<>>
    /\ decision' = NoDecision
    /\ group_id' = NULL
    /\ di' = 0
    /\ ri' = 0
    /\ org_id' = NoId

\* the handler "except BaseException as e" of the loop body
HandleException(exc, cause, h) ==
    /\ pc' = IF is_rate_limit_error(exc) THEN "halted" ELSE "raised"
    /\ metrics' = IF is_rate_limit_error(exc) THEN HaltedMetrics(metrics) ELSE metrics
    /\ hist' = [h EXCEPT !.cause = cause]

\* process_batch is called: lines 114-121.  The call runs in the process of
\* the previous call (the store and the cache are kept) or in a new one.
StartBatch ==
    /\ pc \in {"init"} \cup Terminal
    /\ run < MaxRuns
    /\ run' = run + 1
    /\ \E fresh_process \in BOOLEAN :
          /\ store' = IF fresh_process THEN <<>> ELSE store
          /\ cache' = IF fresh_process THEN <<>> ELSE cache
    /\ items' = LimitItems(GroupItems(rows), limit_groups)
    /\ gi' = 1
    /\ metrics' = ZeroMetrics
    /\ pc' = "bootstrap"
    /\ hist' = [NoHist EXCEPT !.prev = IF pc = "init" THEN "none" ELSE pc, !.run_db = db]
    /\ ResetGroupLocals
    /\ UNCHANGED <<rows, limit_groups, db, nextId>>

\* lines 123-133 with bootstrap_embedding_store: the "except Exception" of
\* bootstrap_embedding_store turns every failure of the batch call into 0
Bootstrap ==
    /\ pc = "bootstrap"
    /\ LET orgs == get_all_organizations_for_embedding(db)
           withText == SelectSeq(orgs, LAMBDA o : build_identity_text_from_org(o) # <<>>)
       IN  IF withText = <<>>
           THEN UNCHANGED <<store, hist>>
           ELSE \E outcome \in ServiceOutcomes :
                   /\ store' = IF outcome = "ok" THEN BootstrapStore(store, withText) ELSE store
                   /\ hist' = [hist EXCEPT !.boot_rate_limit = (outcome = "rate_limit")]
    /\ pc' = IF items = <<>> THEN "done" ELSE "retrieve"
    /\ UNCHANGED <<rows, limit_groups, run, db, cache, nextId, items, gi, current_org,
                   candidates, decision, group_id, di, ri, org_id, metrics>>

\* lines 144-158: the linked record of the source tag, else the close matches
RetrieveCandidates ==
    /\ pc = "retrieve"
    /\ LET group == items[gi]
           first == group[1]
           linked == IF first.pk_unique_id # NoPk /\ first.mongo_db # NULL
                     THEN get_organization_by_mongo_db(db, first.mongo_db)
                     ELSE {}
           text == build_identity_text(first)
           entered == [hist EXCEPT !.group_db = db, !.group_store = store,
                                   !.group_metrics = metrics, !.group_updates = hist.updates,
                                   !.retrieval = IF linked = {} THEN "search" ELSE "tag",
                                   !.agent_called = FALSE, !.group_written = {},
                                   !.order = Append(@, first.pk_unique_id)]
       IN  \E cur \in (IF linked = {} THEN {NoId} ELSE linked) :
              IF cur # NoId
              THEN /\ current_org' = cur
                   /\ candidates' = <<cur>>
                   /\ pc' = "decide"
                   /\ hist' = entered
                   /\ UNCHANGED <<cache, metrics>>
              ELSE \E outcome \in EmbedOutcomes(cache, text) :
                      IF outcome \in {"rate_limit", "error"}
                      THEN /\ HandleException(embed_identity_raises(outcome),
                                              "embedding_" \o outcome, entered)
                           /\ UNCHANGED <<cache, current_org, candidates>>
                      ELSE /\ cache' = IF outcome = "ok" THEN embed_cache_store(cache, text)
                                       ELSE cache
                           /\ current_org' = NoId
                           /\ candidates' = CloseCandidates(db, store, EmbeddingOf(text))
                           /\ pc' = "decide"
                           /\ hist' = entered
                           /\ UNCHANGED metrics
    /\ UNCHANGED <<rows, limit_groups, run, db, store, nextId, items, gi, decision,
                   group_id, di, ri, org_id>>

\* lines 159-170: the path that skips the agent, or run_merge_agent; then
\* existing_id and the group id of a split
Decide ==
    /\ pc = "decide"
    /\ LET group == items[gi]
           first == group[1]
           cheap == Len(group) = 1 /\ candidates = <<>> /\ current_org = NoId
           called == [hist EXCEPT !.agent_called = ~cheap]
           decided(dec, h) ==
               /\ decision' = dec
               /\ group_id' = IF Len(dec.merged_organizations) > 1 THEN ToString(nextId) ELSE NULL
               /\ nextId' = IF Len(dec.merged_organizations) > 1 THEN nextId + 1 ELSE nextId
               /\ pc' = "upsert"
               /\ hist' = h
               /\ UNCHANGED metrics
       IN  \E outcome \in ServiceOutcomes :
              IF cheap
              THEN \* compute_reliability_for_org re-raises a rate limit and
                   \* swallows every other failure
                   IF outcome = "rate_limit"
                   THEN /\ HandleException(judgment_raises(outcome), "reliability_rate_limit", hist)
                        /\ UNCHANGED <<decision, group_id, nextId>>
                   ELSE decided([existing_organization_id |-> NoId,
                                 merged_organizations |->
                                     <<set_reliability_on_merged(
                                           row_to_merged_organization(first),
                                           compute_reliability_for_org(outcome,
                                                                       LlmReliability))>>,
                                 row_assignments |-> <<<<0>>>>],
                                [called EXCEPT !.cause = IF outcome = "error"
                                                         THEN "reliability_error" ELSE @])
              ELSE IF outcome # "ok"
                   THEN /\ HandleException(judgment_raises(outcome), "judgment_" \o outcome, called)
                        /\ UNCHANGED <<decision, group_id, nextId>>
                   ELSE \E payload \in JudgePayloads(group, candidates) :
                           decided(merge_rows_with_agent(group, payload), called)
    /\ UNCHANGED <<rows, limit_groups, run, db, store, cache, items, gi, current_org, candidates,
                   di, ri, org_id>>

\* lines 171-185 for draft di: upsert_organization commits the record, its
\* child rows and its provenance rows, or fails and commits nothing
Upsert ==
    /\ pc = "upsert"
    /\ LET group == items[gi]
           merged == DraftToPersist(decision, di, group_id)
           assigned_rows == AssignedRows(decision, di, group)
           use_existing == UseExisting(di, decision.existing_organization_id)
       IN  \E outcome \in {"ok", "error"} :
              IF outcome = "error"
              THEN /\ HandleException("OtherError", "database_error", hist)
                   /\ UNCHANGED <<db, org_id, nextId>>
              ELSE /\ db' = upsert_organization(db, merged, assigned_rows, use_existing, nextId)
                   /\ org_id' = upsert_organization_id(use_existing, nextId)
                   /\ nextId' = IF use_existing = NoId THEN nextId + 1 ELSE nextId
                   /\ metrics' = IF use_existing # NoId
                                 THEN [metrics EXCEPT !.appended_to_existing = @ + 1]
                                 ELSE [metrics EXCEPT !.new_organizations = @ + 1]
                   /\ hist' = [hist EXCEPT
                                 !.inserts = IF use_existing = NoId THEN @ + 1 ELSE @,
                                 !.updates = IF use_existing # NoId THEN @ + 1 ELSE @,
                                 !.upserted = @ \cup Range(assigned_rows),
                                 !.group_written = @ \cup
                                     {upsert_organization_id(use_existing, nextId)}]
                   /\ pc' = "embed"
    /\ UNCHANGED <<rows, limit_groups, run, store, cache, items, gi, current_org, candidates, decision,
                   group_id, di, ri>>

\* lines 194-196: the identity of the first assigned row is embedded and
\* stored in the index under the id of the record
Embed ==
    /\ pc = "embed"
    /\ LET rep == AssignedRows(decision, di, items[gi])[1]
           text == build_identity_text(rep)
       IN  \E outcome \in EmbedOutcomes(cache, text) :
              IF outcome \in {"rate_limit", "error"}
              THEN /\ HandleException(embed_identity_raises(outcome),
                                      "embedding_" \o outcome, hist)
                   /\ UNCHANGED <<store, cache>>
              ELSE /\ cache' = IF outcome = "ok" THEN embed_cache_store(cache, text) ELSE cache
                   /\ store' = upsert_embedding(store, org_id, EmbeddingOf(text))
                   /\ pc' = "record"
                   /\ UNCHANGED <<metrics, hist>>
    /\ UNCHANGED <<rows, limit_groups, run, db, nextId, items, gi, current_org, candidates, decision,
                   group_id, di, ri, org_id>>

\* lines 197-199: record_processed for the next assigned row (its own
\* commit); after the last row of the last draft the group is counted and
\* the loop moves to the next group or returns
Record ==
    /\ pc = "record"
    /\ LET group == items[gi]
           assigned_rows == AssignedRows(decision, di, group)
           row == assigned_rows[ri + 1]
           lastRow == ri + 1 = Len(assigned_rows)
           lastDraft == di + 1 = Len(decision.merged_organizations)
       IN  \E outcome \in {"ok", "error"} :
              IF outcome = "error"
              THEN /\ HandleException("OtherError", "database_error", hist)
                   /\ UNCHANGED <<db, gi, current_org, candidates, decision, group_id,
                                  di, ri, org_id>>
              ELSE /\ db' = [db EXCEPT !.processed_rows =
                                record_processed(@, row.source_url, row.content_table_id, org_id)]
                   /\ hist' = hist
                   /\ IF ~lastRow
                      THEN /\ ri' = ri + 1
                           /\ UNCHANGED <<pc, metrics, gi, current_org, candidates, decision,
                                          group_id, di, org_id>>
                      ELSE IF ~lastDraft
                      THEN /\ di' = di + 1
                           /\ ri' = 0
                           /\ pc' = "upsert"
                           /\ UNCHANGED <<metrics, gi, current_org, candidates, decision,
                                          group_id, org_id>>
                      ELSE /\ metrics' = [metrics EXCEPT !.rows_processed = @ + Len(group)]
                           /\ pc' = IF gi < Len(items) THEN "retrieve" ELSE "done"
                           /\ gi' = IF gi < Len(items) THEN gi + 1 ELSE gi
                           /\ ResetGroupLocals
    /\ UNCHANGED <<rows, limit_groups, run, store, cache, nextId, items>>

Next ==
    \/ StartBatch
    \/ Bootstrap
    \/ RetrieveCandidates
    \/ Decide
    \/ Upsert
    \/ Embed
    \/ Record

Spec == Init /\ [][Next]_vars

----------------------------------------------------------------------------
(* Properties *)

\* the ledger as a mapping: the pairs (key, organization id) it holds
LedgerPairs(d) == {<<EntryKey(e), e.organization_id>> : e \in Range(d.processed_rows)}

\* the rows of the groups before group k
RowsBefore(k) == SeqSum([j \in 1..(k - 1) |-> Len(items[j])])

InGroup == pc \in {"decide", "upsert", "embed", "record"}

JudgmentRateLimit == hist.cause \in {"judgment_rate_limit", "reliability_rate_limit"}

\* C1: a second process_batch over the same rows, after one that completed,
\* leaves the number of organization records and the ledger mapping as the
\* first left them.
C1_Idempotent ==
    (run >= 2 /\ hist.prev = "done" /\ pc = "done") =>
        /\ Cardinality(db.organizations) = Cardinality(hist.run_db.organizations)
        /\ LedgerPairs(db) = LedgerPairs(hist.run_db)

\* C2: when process_batch stops on a failure inside a group, none of the
\* writes of that group is committed: the database is as it was when the
\* group was entered.
C2_AtomicGroup ==
    (pc \in {"halted", "raised"}) => db = hist.group_db

\* C3: a rate limit of the judgment service while group k is decided makes
\* process_batch return (not raise) with rate_limit_hit set and the counts of
\* groups 1..k-1, and leaves the database and the index as they were when
\* group k was entered.
C3_HaltAndPreserve ==
    JudgmentRateLimit =>
        /\ pc = "halted"
        /\ metrics.rate_limit_hit
        /\ metrics.rows_processed = RowsBefore(gi)
        /\ metrics.new_organizations =
              Cardinality(db.organizations) - Cardinality(hist.run_db.organizations)
        /\ metrics.new_organizations = hist.inserts
        /\ metrics.appended_to_existing = hist.updates
        /\ db = hist.group_db
        /\ store = hist.group_store

\* C3 witness: the judgment service is rate limited on a group after the
\* first, whose rows are counted.
C3_Witness ==
    /\ JudgmentRateLimit
    /\ pc = "halted"
    /\ gi >= 2
    /\ metrics.rows_processed > 0
    /\ metrics.new_organizations + metrics.appended_to_existing > 0

\* C4: a rate limit of the embedding service makes process_batch return
\* with rate_limit_hit set instead of raising.
C4_EmbeddingRateLimitHalts ==
    (hist.cause = "embedding_rate_limit") => (pc = "halted" /\ metrics.rate_limit_hit)

\* C5: a rate limit of the batch embedding call of the bootstrap makes
\* process_batch return IngestMetrics(0, 0, 0, rate_limit_hit = true) with no
\* group processed.
C5_BootstrapRateLimitHalts ==
    hist.boot_rate_limit =>
        (pc = "halted" /\ metrics = [ZeroMetrics EXCEPT !.rate_limit_hit = TRUE])

\* C6: a process_batch that follows a halted one calls upsert_organization
\* for no row whose (source_url, content_table_id) was in the ledger when it
\* started.
C6_ResumeSkipsLedgerRows ==
    (run >= 2 /\ hist.prev = "halted") =>
        \A r \in hist.upserted :
            get_processed_organization_id(hist.run_db.processed_rows,
                                          r.source_url, r.content_table_id) = {}

\* a decision for n rows has one assignment list per draft and the lists
\* hold each index 0..n-1 exactly once
WellFormed(dec, n) ==
    LET ra == dec.row_assignments
        CountIn(part, j) == Cardinality({k \in DOMAIN part : part[k] = j})
        Occurrences(j) == SeqSum([i \in DOMAIN ra |-> CountIn(ra[i], j)])
    IN  /\ Len(ra) = Len(dec.merged_organizations)
        /\ \A j \in 0..(n - 1) : Occurrences(j) = 1
        /\ \A i \in DOMAIN ra : \A k \in DOMAIN ra[i] : ra[i][k] \in 0..(n - 1)

\* C7: every decision handed to the persistence loop has as many assignment
\* lists as drafts, and the lists partition the row indices of the group.
C7_DecisionWellFormed ==
    (pc \in {"upsert", "embed", "record"}) => WellFormed(decision, Len(items[gi]))

\* C8: the ledger holds at most one entry per (source_url, content_table_id),
\* a missing content_table_id being the key ""; the rows recorded so far for
\* the current draft point to the record just written.
C8_LedgerUnique ==
    /\ \A i, j \in DOMAIN db.processed_rows :
          EntryKey(db.processed_rows[i]) = EntryKey(db.processed_rows[j]) => i = j
    /\ (pc = "record") =>
          \A k \in 1..ri :
              LET row == AssignedRows(decision, di, items[gi])[k]
              IN  get_processed_organization_id(db.processed_rows, row.source_url,
                                                row.content_table_id) = {org_id}

\* C8 witness: a pair recorded before this run is recorded again, for
\* another record, and a row without content_table_id is in the ledger.
C8_Witness ==
    /\ \E e \in Range(db.processed_rows), f \in Range(hist.run_db.processed_rows) :
          EntryKey(e) = EntryKey(f) /\ e.organization_id # f.organization_id
    /\ \E e \in Range(db.processed_rows) : e.content_table_id = ""

\* C9: an update of an existing record by a decision of one draft keeps
\* every specialty the record had when the group was entered.
C9_UnionMonotone ==
    (/\ pc = "embed"
     /\ Len(decision.merged_organizations) = 1
     /\ UseExisting(di, decision.existing_organization_id) # NoId
     /\ org_id \in OrgIds(hist.group_db)) =>
        SpecialtiesOf(hist.group_db, org_id) \subseteq SpecialtiesOf(db, org_id)

\* C10: in a group at most one upsert is an update; a draft at position >= 1
\* is written under an identifier no record had, every insert adds a record,
\* and the records other than the update target are left as they were.
C10_OnlyFirstDraftUpdates ==
    /\ hist.updates - hist.group_updates <= 1
    /\ (pc \in {"embed", "record"} /\ di >= 1) =>
          /\ org_id \notin OrgIds(hist.group_db)
          /\ org_id # decision.existing_organization_id
    /\ InGroup =>
          /\ Cardinality(db.organizations) - Cardinality(hist.group_db.organizations)
                = metrics.new_organizations - hist.group_metrics.new_organizations
          /\ \A o \in hist.group_db.organizations :
                o.id # decision.existing_organization_id =>
                    /\ o \in db.organizations
                    /\ SpecialtiesOf(db, o.id) = SpecialtiesOf(hist.group_db, o.id)

\* C10 witness: a decision that names an existing record and has two
\* drafts; the second draft has just been written.
C10_Witness ==
    /\ pc = "embed"
    /\ di = 1
    /\ decision.existing_organization_id \in OrgIds(hist.group_db)

\* C11: a group whose first row carries a source tag that a record was
\* linked to when the group was entered, keyed or keyless, gets that record
\* as its only candidate, and no embedding is computed and no search made.
C11_TagShortCircuit ==
    (/\ pc \in {"decide", "raised"}
     /\ hist.retrieval # "none"
     /\ items[gi][1].mongo_db # NULL
     /\ get_organization_by_mongo_db(hist.group_db, items[gi][1].mongo_db) # {}) =>
        /\ hist.retrieval = "tag"
        /\ Len(candidates) = 1
        /\ candidates[1] \in get_organization_by_mongo_db(hist.group_db, items[gi][1].mongo_db)

----------------------------------------------------------------------------
(* Candidate retrieval on an index of many records: the index is filled by
   upsert_embedding, one record after the other, and the retrieval of
   process_batch (lines 151-158) is applied to it. *)

\* entries of the index
MaxStore == 11

\* the identity texts the index is filled from
IndexTexts == {<<"a">>, <<"b", "p">>}

InitSearch ==
    /\ rows = <<>>
    /\ limit_groups = NoLimit
    /\ run = 0
    /\ pc = "index"
    /\ db = EmptyDb
    /\ store = <<>>
    /\ cache = <<>>
    /\ nextId = 1
    /\ items = <<>>
    /\ gi = 0
    /\ current_org = NoId
    /\ candidates = <<>>
    /\ decision = NoDecision
    /\ group_id = NULL
    /\ di = 0
    /\ ri = 0
    /\ org_id = NoId
    /\ metrics = ZeroMetrics
    /\ hist = NoHist

\* a record is written and indexed (lines 179 and 194-196); the first write
\* may be the UPDATE of an id no record has, which leaves an index entry
\* without a record
IndexOrganization ==
    /\ pc = "index"
    /\ Len(store) < MaxStore
    /\ \E text \in IndexTexts, known \in BOOLEAN :
          /\ known \/ store = <<>>
          /\ db' = IF known
                   THEN upsert_organization(db, [canonical_name |-> text[1],
                                                 organization_group_id |-> NULL,
                                                 specialties |-> {}, procedure |-> <<>>,
                                                 reliability_score |-> NoScore,
                                                 reliability_explanation |-> NoText],
                                            <<>>, NoId, nextId)
                   ELSE db
          /\ store' = upsert_embedding(store, nextId, EmbeddingOf(text))
    /\ nextId' = nextId + 1
    /\ UNCHANGED <<rows, limit_groups, run, pc, cache, items, gi, current_org, candidates, decision,
                   group_id, di, ri, org_id, metrics, hist>>

\* lines 152-158 for a representative row without a linked record
SearchCandidates ==
    /\ pc = "index"
    /\ \E first \in RowUniverse :
          /\ rows' = <<first>>
          /\ candidates' = CloseCandidates(db, store, EmbeddingOf(build_identity_text(first)))
    /\ pc' = "searched"
    /\ UNCHANGED <<limit_groups, run, db, store, cache, nextId, items, gi, current_org,
                   decision, group_id, di, ri, org_id, metrics, hist>>

NextSearch ==
    \/ IndexOrganization
    \/ SearchCandidates

SpecSearch == InitSearch /\ [][NextSearch]_vars

\* the similarity of each entry of an index to an embedding
RECURSIVE ScoresOf(_, _)
ScoresOf(st, embedding) ==
    IF st = <<>> THEN <<>>
    ELSE <<cosine_similarity(embedding, Head(st).emb)>> \o ScoresOf(Tail(st), embedding)

\* the similarity of each index entry to the searched row
SearchScores == ScoresOf(store, EmbeddingOf(build_identity_text(rows[1])))

\* C12: the candidates found by the search are distinct records of the
\* database, each at least EMBEDDING_SIMILARITY_THRESHOLD similar to the row
\* and preceded by fewer than ten more similar index entries, listed by
\* descending similarity, and there are at most MAX_CANDIDATES_FOR_AGENT.
C12_ThresholdAndCap ==
    (pc = "searched") =>
        LET scores == SearchScores
            entryOf == [i \in DOMAIN candidates |->
                          {k \in DOMAIN store : store[k].id = candidates[i]}]
        IN  /\ Len(candidates) <= MAX_CANDIDATES_FOR_AGENT
            /\ \A i, j \in DOMAIN candidates : candidates[i] = candidates[j] => i = j
            /\ \A i \in DOMAIN candidates :
                  /\ candidates[i] \in OrgIds(db)
                  /\ \E k \in entryOf[i] :
                        /\ scores[k] >= EMBEDDING_SIMILARITY_THRESHOLD_PCT
                        /\ Cardinality({m \in DOMAIN store : scores[m] > scores[k]})
                              < SEARCH_TOP_K
                        /\ \A j \in DOMAIN candidates :
                              i < j => \A m \in entryOf[j] : scores[m] <= scores[k]

\* C12 witness: the index holds more than ten entries, more than five of
\* them close to the row and some of them not, and five candidates came out.
C12_Witness ==
    /\ pc = "searched"
    /\ Len(store) > SEARCH_TOP_K
    /\ Len(candidates) = MAX_CANDIDATES_FOR_AGENT
    /\ Cardinality({k \in DOMAIN store :
                       SearchScores[k] >= EMBEDDING_SIMILARITY_THRESHOLD_PCT})
          > MAX_CANDIDATES_FOR_AGENT
    /\ \E k \in DOMAIN store : SearchScores[k] < EMBEDDING_SIMILARITY_THRESHOLD_PCT

\* the group being processed has one row, no candidate and no linked record
SingleNewOrganization ==
    /\ Len(items[gi]) = 1
    /\ candidates = <<>>
    /\ current_org = NoId

\* C13: for a group of one row with no candidate and no linked record the
\* merge agent is not called, the decision is one draft made of the row's
\* fields with no existing id and row_assignments [[0]], and persisting it
\* adds exactly one record, counted in new_organizations only.
C13_CheapPath ==
    /\ (pc \in {"upsert", "embed", "record", "halted", "raised"} /\ SingleNewOrganization) =>
          ~hist.agent_called
    /\ (pc \in {"upsert", "embed", "record"} /\ SingleNewOrganization) =>
          /\ decision.existing_organization_id = NoId
          /\ decision.row_assignments = <<<<0>>>>
          /\ Len(decision.merged_organizations) = 1
          /\ decision.merged_organizations[1].canonical_name = items[gi][1].name
          /\ decision.merged_organizations[1].specialties = items[gi][1].specialties
          /\ decision.merged_organizations[1].organization_group_id = NULL
    /\ (pc \in {"embed", "record"} /\ SingleNewOrganization) =>
          /\ org_id \notin OrgIds(hist.group_db)
          /\ OrgIds(db) = OrgIds(hist.group_db) \cup {org_id}
          /\ \A o \in hist.group_db.organizations : o \in db.organizations
          /\ \E o \in db.organizations :
                /\ o.id = org_id
                /\ o.canonical_name = items[gi][1].name
          /\ SpecialtiesOf(db, org_id) = items[gi][1].specialties
          /\ metrics.new_organizations = hist.group_metrics.new_organizations + 1
          /\ metrics.appended_to_existing = hist.group_metrics.appended_to_existing

\* C13 witness: the record of a single new organization with specialties has
\* been inserted while other records exist.
C13_Witness ==
    /\ pc = "record"
    /\ SingleNewOrganization
    /\ items[gi][1].specialties # {}
    /\ hist.group_db.organizations # {}
    /\ org_id \in OrgIds(db)

\* C14: the records written so far from a decision of two or more drafts
\* all carry the same organization_group_id, and it is not null.
C14_SharedGroupId ==
    (pc \in {"embed", "record"} /\ Len(decision.merged_organizations) >= 2) =>
        \A o \in db.organizations : o.id \in hist.group_written =>
            /\ o.organization_group_id # NULL
            /\ \A p \in db.organizations : p.id \in hist.group_written =>
                  p.organization_group_id = o.organization_group_id

\* C15: in a decision returned by run_merge_agent every draft's specialties
\* and procedure are the de-duplicated union (in order, for the list) of
\* those of the rows assigned to it, whatever the reply held.
C15_FieldUnion ==
    (pc = "upsert" /\ hist.agent_called) =>
        \A i \in DOMAIN decision.merged_organizations :
            i <= Len(decision.row_assignments) =>
                LET assigned == RowsAt(items[gi], decision.row_assignments[i])
                IN  /\ decision.merged_organizations[i].specialties
                          = UNION {assigned[k].specialties : k \in DOMAIN assigned}
                    /\ decision.merged_organizations[i].procedure
                          = UnionProcedure(assigned)

\* the upsert_organization step of process_batch for the current draft
UpsertStep == pc = "upsert" /\ pc' = "embed"

\* the records other than id have the child rows they had
OtherChildrenUnchanged(id) ==
    \A o \in (OrgIds(db) \cup OrgIds(db')) \ {id} :
        /\ SpecialtiesOf(db', o) = SpecialtiesOf(db, o)
        /\ FactsOf(db', o) = FactsOf(db, o)

C17_ProvenanceUnique ==
    \A i, j \in DOMAIN db.organization_sources :
        (/\ db.organization_sources[i].organization_id = db.organization_sources[j].organization_id
         /\ db.organization_sources[i].source_url = db.organization_sources[j].source_url
         /\ db.organization_sources[i].content_table_id
               = db.organization_sources[j].content_table_id) => i = j

\* key k comes before key m in the order of process_batch
KeyBefore(k, m) == k # NoPk /\ (m = NoPk \/ k < m)

\* the keys of the input rows
InputKeys == {rows[i].pk_unique_id : i \in DOMAIN rows}

\* C18: the groups entered in a run are entered in ascending key order with
\* the keyless group last, each once and only after the groups before it
\* were completed; each is made of all the rows of its key; no group comes
\* before an entered one without being entered; at most limit_groups groups
\* are entered, and a run that completes has entered that many or all.
C18_GroupOrder ==
    LET order == hist.order
        limit == IF limit_groups = NoLimit \/ limit_groups > Cardinality(InputKeys)
                 THEN Cardinality(InputKeys) ELSE limit_groups
    IN  /\ \A i, j \in DOMAIN order : i < j => KeyBefore(order[i], order[j])
        /\ Range(order) \subseteq InputKeys
        /\ \A k \in InputKeys \ Range(order) : \A o \in Range(order) : KeyBefore(o, k)
        /\ Len(order) <= limit
        /\ (pc = "done") => Len(order) = limit
        /\ (pc \in {"decide", "upsert", "embed", "record"}) =>
              /\ gi = Len(order)
              /\ items[gi] = SelectSeq(rows, LAMBDA r : r.pk_unique_id = order[gi])
              /\ metrics.rows_processed =
                    Cardinality({i \in DOMAIN rows :
                                   \E j \in 1..(gi - 1) : rows[i].pk_unique_id = order[j]})

\* C18 witness: a batch of a keyless row followed by a keyed row, run to
\* the end with limit_groups = 1: the keyed group alone was processed.
C18_Witness ==
    /\ pc = "done"
    /\ limit_groups = 1
    /\ Len(rows) = 2
    /\ rows[1].pk_unique_id = NoPk
    /\ rows[2].pk_unique_id # NoPk
    /\ hist.order = <<rows[2].pk_unique_id>>
    /\ metrics.rows_processed = 1

\* C19: a failure that is not a rate limit, of the embedding, of a judgment
\* or of the database, while a group is processed makes process_batch raise
\* and leaves the group unprocessed: the records and the ledger are as they
\* were when the group was entered.
C19_TransientFailure ==
    (hist.cause \in {"embedding_error", "judgment_error", "reliability_error",
                     "database_error"}) =>
        /\ pc = "raised"
        /\ db = hist.group_db

----------------------------------------------------------------------------
(* Reliability of the stored records: the paths that store a score and an
   explanation (the merge judgment and the reliability judgment of
   process_batch and process_single_row, the backfill of run_ingest, and
   update_reliability) applied to the replies a judgment service can give. *)

\* records that are scored
MaxScored == 1

\* the reliability_score values of a reply
RawScores ==
    {[kind |-> k, value |-> 0] : k \in {"null", "text", "nan", "huge"}}
        \cup {[kind |-> "number", value |-> v] : v \in {-5, 0, 7, 10, 15}}

\* the reliability_explanation values of a reply
RawExplanations ==
    {[kind |-> "null", text |-> NoText, truthy |-> FALSE],
     [kind |-> "str", text |-> <<0, 20, 0>>, truthy |-> TRUE],
     [kind |-> "str", text |-> <<2, 499, 3>>, truthy |-> TRUE],
     [kind |-> "str", text |-> <<0, 0, 3>>, truthy |-> TRUE],
     [kind |-> "other", text |-> <<0, 700, 0>>, truthy |-> TRUE],
     [kind |-> "other", text |-> <<0, 2, 0>>, truthy |-> FALSE]}

\* the replies of the reliability judgment
RawReplies ==
    [reliability_score : RawScores, reliability_explanation : RawExplanations]

\* the score and explanation arguments of update_reliability
ScoreInputs == {NoScore} \cup {<<v>> : v \in {-5, 0, 7, 10, 15}}

ExplanationInputs == {NoText, <<0, 20, 0>>, <<3, 600, 2>>, <<0, 0, 2>>}

\* the row the scored records are made from
ScoredRows == {r \in RowUniverse : r.source_url = "u3"}

InitReliability ==
    /\ rows = <<>>
    /\ limit_groups = NoLimit
    /\ run = 0
    /\ pc = "score"
    /\ db = EmptyDb
    /\ store = <<>>
    /\ cache = <<>>
    /\ nextId = 1
    /\ items = <<>>
    /\ gi = 0
    /\ current_org = NoId
    /\ candidates = <<>>
    /\ decision = NoDecision
    /\ group_id = NULL
    /\ di = 0
    /\ ri = 0
    /\ org_id = NoId
    /\ metrics = ZeroMetrics
    /\ hist = NoHist

\* the merge judgment answers with one draft, which is normalised
\* (merge_agent.py 119-129) and written by upsert_organization (pipeline.py
\* 179 and 256); an OverflowError of the normalisation leaves the judgment
\* and nothing is written
ScoreByAgent ==
    /\ pc = "score"
    /\ \E row \in ScoredRows, reply \in RawReplies, existing \in {NoId} \cup OrgIds(db) :
          LET payload == [existing_organization_id |-> existing,
                          merged_organizations |->
                              <<[canonical_name |-> row.name,
                                 organization_group_id |-> NULL,
                                 specialties |-> {}, procedure |-> <<>>,
                                 reliability_score |-> reply.reliability_score,
                                 reliability_explanation |-> reply.reliability_explanation]>>,
                          row_assignments |-> <<<<0>>>>]
          IN  /\ existing = NoId => Cardinality(db.organizations) < MaxScored
              /\ IF normalize_score_raises(reply.reliability_score)
                 THEN /\ hist' = [hist EXCEPT !.cause = "judgment_error", !.scored = <<>>]
                      /\ UNCHANGED <<db, org_id, nextId, decision>>
                 ELSE LET dec == merge_rows_with_agent(<<row>>, payload)
                      IN  /\ decision' = dec
                          /\ db' = upsert_organization(db, dec.merged_organizations[1], <<row>>,
                                                       existing, nextId)
                          /\ org_id' = upsert_organization_id(existing, nextId)
                          /\ nextId' = IF existing = NoId THEN nextId + 1 ELSE nextId
                          /\ hist' = [hist EXCEPT
                                        !.cause = "none",
                                        !.scored = <<reply.reliability_score>>]
    /\ UNCHANGED <<rows, limit_groups, run, pc, store, cache, items, gi, current_org,
                   candidates, group_id, di, ri, metrics>>

\* a row without candidates: the draft of the row gets the reliability the
\* reliability judgment computed (pipeline.py 160-164 and 245-247) and is
\* written as a new record
ScoreNewOrganization ==
    /\ pc = "score"
    /\ Cardinality(db.organizations) < MaxScored
    /\ \E row \in ScoredRows, reply \in RawReplies, outcome \in {"ok", "error"} :
          LET merged == set_reliability_on_merged(row_to_merged_organization(row),
                                                  compute_reliability_for_org(outcome, reply))
          IN  /\ decision' = [existing_organization_id |-> NoId,
                              merged_organizations |-> <<merged>>,
                              row_assignments |-> <<<<0>>>>]
              /\ db' = upsert_organization(db, merged, <<row>>, NoId, nextId)
              /\ hist' = [hist EXCEPT
                            !.cause = IF outcome = "error" THEN "reliability_error" ELSE "none",
                            !.scored = IF outcome = "ok" THEN <<reply.reliability_score>>
                                       ELSE <<>>]
    /\ org_id' = nextId
    /\ nextId' = nextId + 1
    /\ UNCHANGED <<rows, limit_groups, run, pc, store, cache, items, gi, current_org,
                   candidates, group_id, di, ri, metrics>>

\* _run_reliability_backfill for one record without a score: the computed
\* reliability is stored by update_reliability when there is a score
BackfillReliability ==
    /\ pc = "score"
    /\ \E o \in {r \in db.organizations : r.reliability_score = NoScore},
          reply \in RawReplies, outcome \in {"ok", "error"} :
          LET result == compute_reliability_for_org(outcome, reply)
          IN  /\ db' = IF result[1] # NoScore
                       THEN update_reliability(db, o.id, result[1], result[2])
                       ELSE db
              /\ org_id' = o.id
              /\ hist' = [hist EXCEPT
                            !.cause = IF outcome = "error" THEN "reliability_error" ELSE "none",
                            !.scored = IF outcome = "ok" THEN <<reply.reliability_score>>
                                       ELSE <<>>]
    /\ UNCHANGED <<rows, limit_groups, run, pc, store, cache, nextId, items, gi, current_org,
                   candidates, decision, group_id, di, ri, metrics>>

\* update_reliability called with a score and an explanation
UpdateReliability ==
    /\ pc = "score"
    /\ \E id \in OrgIds(db), score \in ScoreInputs, explanation \in ExplanationInputs :
          /\ db' = update_reliability(db, id, score, explanation)
          /\ org_id' = id
          /\ hist' = [hist EXCEPT
                        !.cause = "none",
                        !.scored = IF score = NoScore THEN <<>>
                                   ELSE <<[kind |-> "number", value |-> score[1]]>>]
    /\ UNCHANGED <<rows, limit_groups, run, pc, store, cache, nextId, items, gi, current_org,
                   candidates, decision, group_id, di, ri, metrics>>

NextReliability ==
    \/ ScoreByAgent
    \/ ScoreNewOrganization
    \/ BackfillReliability
    \/ UpdateReliability

SpecReliability == InitReliability /\ [][NextReliability]_vars

\* every stored score is within the bounds
ScoresInRange ==
    \A o \in db.organizations :
        \/ o.reliability_score = NoScore
        \/ /\ o.reliability_score[1] >= RELIABILITY_MIN
           /\ o.reliability_score[1] <= RELIABILITY_MAX

\* every stored explanation has at most 500 characters
ExplanationsShort ==
    \A o \in db.organizations : TextLen(o.reliability_explanation) <= EXPLANATION_MAX

\* the last numeric score given for a record is stored as the nearest bound
\* when it lies outside the bounds
OutOfRangeStoredAsBound ==
    (hist.scored # <<>> /\ hist.scored[1].kind \in {"number", "huge"}) =>
        LET raw == hist.scored[1]
            above == raw.kind = "huge" \/ raw.value > RELIABILITY_MAX
            below == raw.kind = "number" /\ raw.value < RELIABILITY_MIN
        IN  \A o \in db.organizations :
                (o.id = org_id) =>
                    /\ above => o.reliability_score = <<RELIABILITY_MAX>>
                    /\ below => o.reliability_score = <<RELIABILITY_MIN>>

\* C20: every score stored on a record by the pipeline or by
\* update_reliability lies in [0, 10], a numeric input outside the bounds
\* being stored as the nearest bound, and every stored explanation has at
\* most 500 characters, whatever the judgment service returned.
C20_ScoreClamping ==
    /\ ScoresInRange
    /\ ExplanationsShort
    /\ OutOfRangeStoredAsBound

----------------------------------------------------------------------------
\* the vectors the index holds for an id
VectorsOf(st, id) == {st[k].emb : k \in {j \in DOMAIN st : st[j].id = id}}

\* the ids of the index
StoreIds(st) == {st[k].id : k \in DOMAIN st}

\* no two entries of the index have the same id
OneVectorPerId(st) == \A i, j \in DOMAIN st : st[i].id = st[j].id => i = j

\* C21: the index holds at most one vector per id; after the upsert of
\* process_batch the id's vector is the one just given, after the upserts of
\* the bootstrap each loaded record's vector is the one of its identity
\* text, and the vectors of all other ids are unchanged.
C21_UpsertReplaces ==
    [][/\ OneVectorPerId(store')
       /\ (pc = "embed" /\ pc' = "record") =>
             LET rep == AssignedRows(decision, di, items[gi])[1]
             IN  /\ VectorsOf(store', org_id) = {EmbeddingOf(build_identity_text(rep))}
                 /\ \A id \in (StoreIds(store) \cup StoreIds(store')) \ {org_id} :
                        VectorsOf(store', id) = VectorsOf(store, id)
       /\ (pc = "bootstrap" /\ store' # store) =>
             LET loaded == {o \in db.organizations : build_identity_text_from_org(o) # <<>>}
             IN  /\ \A o \in loaded :
                        VectorsOf(store', o.id) = {EmbeddingOf(build_identity_text_from_org(o))}
                 /\ \A id \in (StoreIds(store) \cup StoreIds(store')) \ {o.id : o \in loaded} :
                        VectorsOf(store', id) = VectorsOf(store, id)
      ]_vars

\* C21 witness: the upsert of a draft has replaced the vector the index held
\* for the record when the group was entered by a different one.
C21_Witness ==
    /\ pc = "record"
    /\ \E k \in DOMAIN hist.group_store :
          /\ hist.group_store[k].id = org_id
          /\ VectorsOf(store, org_id) # {hist.group_store[k].emb}
          /\ VectorsOf(store, org_id) # {}

----------------------------------------------------------------------------
(* search_similar on an index of many entries, for several values of top_k *)

\* the values of top_k: one entry, a few, and the value process_batch uses
TopKChoices == {1, 3, SEARCH_TOP_K}

\* search_similar(embedding, top_k=top_k) for the identity of a row; the
\* result is kept in candidates as pairs [id, score]
SearchSimilar ==
    /\ pc = "index"
    /\ \E first \in RowUniverse, top_k \in TopKChoices :
          /\ rows' = <<first>>
          /\ candidates' = search_similar(store, EmbeddingOf(build_identity_text(first)), top_k)
          /\ hist' = [hist EXCEPT !.top_k = top_k]
    /\ pc' = "similar"
    /\ UNCHANGED <<limit_groups, run, db, store, cache, nextId, items, gi, current_org,
                   decision, group_id, di, ri, org_id, metrics>>

NextSimilar ==
    \/ IndexOrganization
    \/ SearchSimilar

SpecSimilar == InitSearch /\ [][NextSimilar]_vars

\* the index entries a search result returned
ReturnedEntries == {k \in DOMAIN store : \E i \in DOMAIN candidates : candidates[i].id = store[k].id}

\* C22: search_similar returns min(top_k, number of entries) pairs of
\* distinct stored entries with their similarity to the query, ordered by
\* non-increasing similarity; no entry left out is more similar than a
\* returned one; and when a stored vector equals the query, the result
\* starts with similarity 1 and every returned entry equal to the query has
\* similarity 1.
C22_SearchResult ==
    (pc = "similar") =>
        LET query == EmbeddingOf(build_identity_text(rows[1]))
            scores == ScoresOf(store, query)
        IN  /\ Len(candidates) = Min(hist.top_k, Len(store))
            /\ \A i, j \in DOMAIN candidates : candidates[i].id = candidates[j].id => i = j
            /\ \A i \in DOMAIN candidates :
                  \E k \in DOMAIN store : /\ store[k].id = candidates[i].id
                                          /\ scores[k] = candidates[i].score
            /\ \A i \in 1..(Len(candidates) - 1) : candidates[i].score >= candidates[i + 1].score
            /\ \A k \in DOMAIN store \ ReturnedEntries :
                  \A i \in DOMAIN candidates : scores[k] <= candidates[i].score
            /\ (\E k \in DOMAIN store : store[k].emb = query) =>
                  /\ candidates[1].score = 100
                  /\ \A k \in ReturnedEntries : store[k].emb = query => scores[k] = 100

\* C22 witness: a search on an index with more than top_k entries, one of
\* them equal to the query, that returned entries of different similarity
\* and left an entry out.
C22_Witness ==
    /\ pc = "similar"
    /\ Len(store) > hist.top_k
    /\ \E k \in DOMAIN store : store[k].emb = EmbeddingOf(build_identity_text(rows[1]))
    /\ \E i, j \in DOMAIN candidates : candidates[i].score # candidates[j].score
    /\ DOMAIN store \ ReturnedEntries # {}

----------------------------------------------------------------------------
\* C23: when a row without candidates has been persisted from its own
\* fields, the identity text the bootstrap builds from the stored record
\* equals the identity text built from the row.
C23_IdentityTextSame ==
    (pc = "embed" /\ ~hist.agent_called /\ org_id \in OrgIds(db)) =>
        LET loaded == get_all_organizations_for_embedding(db)
        IN  \A k \in DOMAIN loaded :
                (loaded[k].id = org_id) =>
                    build_identity_text_from_org(loaded[k]) = build_identity_text(items[gi][1])

----------------------------------------------------------------------------
(* Parsing of a CSV row (parser.py).  A cell is [kind, value]; the kinds
   of a numeric cell are: missing (None or the NaN pandas gives an empty
   cell), empty (""), null ("null"), number (a text float() reads, value in
   tenths), text (a text float() rejects), nan_text ("nan": float() reads
   it, int() rejects it with ValueError) and inf (an infinite float or
   "inf": int() rejects it with OverflowError). *)

NumericCells ==
    {[kind |-> k, value |-> 0] : k \in {"missing", "empty", "null", "text", "nan_text", "inf"}}
        \cup {[kind |-> "number", value |-> v] : v \in {10, 27}}

\* a UUID cell: missing, a valid UUID, a text UUID() rejects
UuidCells ==
    {[kind |-> "missing", value |-> NULL], [kind |-> "valid", value |-> "c1"],
     [kind |-> "invalid", value |-> "zz"]}

\* a boolean cell: missing, a recognised word, another word
BoolCells ==
    {[kind |-> "missing", value |-> NULL], [kind |-> "word", value |-> "yes"],
     [kind |-> "word", value |-> "0"], [kind |-> "word", value |-> "maybe"]}

\* a list cell: missing, a JSON list, a text that starts with "[" and is no
\* JSON, a JSON value that is no list
ListCells ==
    {[kind |-> "missing", value |-> <<>>], [kind |-> "list", value |-> <<"sx ", " ">>],
     [kind |-> "broken", value |-> <<>>], [kind |-> "not_list", value |-> <<>>]}

\* the rows of the DataFrame
RawRows ==
    [source_url : {"u1"}, name : {"a", NULL}, pk_unique_id : NumericCells,
     content_table_id : UuidCells, accepts_volunteers : BoolCells, specialties : ListCells]

\* _parse_int: int(float(raw)), None for a missing cell and on ValueError or
\* TypeError
parse_int(raw) ==
    CASE raw.kind \in {"missing", "empty", "null"} -> NoPk
      [] raw.kind = "number"                      -> raw.value \div 10
      [] raw.kind \in {"text", "nan_text"}         -> NoPk

\* int(float("inf")) raises OverflowError, which _parse_int does not catch
parse_int_raises(raw) == raw.kind = "inf"

\* _parse_uuid
parse_uuid(raw) == IF raw.kind = "valid" THEN raw.value ELSE NULL

\* _parse_bool
parse_bool(raw) ==
    IF raw.kind = "missing" THEN NULL
    ELSE IF raw.value \in {"true", "1", "yes"} THEN "True"
    ELSE IF raw.value \in {"false", "0", "no"} THEN "False"
    ELSE NULL

\* _parse_json_list: the stripped, non-empty items of a JSON list, else []
parse_json_list(raw) ==
    IF raw.kind = "list"
    THEN SelectSeq([k \in DOMAIN raw.value |-> Strip(raw.value[k])], LAMBDA x : x # "")
    ELSE <<>>

\* _str_or_none(get("name")) or ""
parse_name(raw) == IF raw = NULL THEN "" ELSE raw

\* row_to_scraped_row raises when one of its parsers does
row_to_scraped_row_raises(raw) == parse_int_raises(raw.pk_unique_id)

\* row_to_scraped_row
row_to_scraped_row(raw) ==
    [source_url |-> raw.source_url,
     name |-> parse_name(raw.name),
     pk_unique_id |-> parse_int(raw.pk_unique_id),
     content_table_id |-> parse_uuid(raw.content_table_id),
     accepts_volunteers |-> parse_bool(raw.accepts_volunteers),
     specialties |-> parse_json_list(raw.specialties)]

\* a DataFrame of one row is about to be parsed (items holds its rows)
InitParse ==
    /\ rows = <<>>
    /\ limit_groups = NoLimit
    /\ run = 0
    /\ pc = "parse"
    /\ db = EmptyDb
    /\ store = <<>>
    /\ cache = <<>>
    /\ nextId = 1
    /\ items \in {<<raw>> : raw \in RawRows}
    /\ gi = 0
    /\ current_org = NoId
    /\ candidates = <<>>
    /\ decision = NoDecision
    /\ group_id = NULL
    /\ di = 0
    /\ ri = 0
    /\ org_id = NoId
    /\ metrics = ZeroMetrics
    /\ hist = NoHist

\* load_rows: row_to_scraped_row for the row of the DataFrame
ParseRow ==
    /\ pc = "parse"
    /\ IF row_to_scraped_row_raises(items[1])
       THEN /\ pc' = "parse_raised"
            /\ rows' = rows
       ELSE /\ pc' = "parsed"
            /\ rows' = <<row_to_scraped_row(items[1])>>
    /\ UNCHANGED <<limit_groups, run, db, store, cache, nextId, items, gi, current_org,
                   candidates, decision, group_id, di, ri, org_id, metrics, hist>>

NextParse == ParseRow

SpecParse == InitParse /\ [][NextParse]_vars

\* C24: row_to_scraped_row returns a row for every cell value, with the
\* field of a malformed cell null (empty for a list field).
C24_MalformedCellsDegrade ==
    (pc # "parse") =>
        /\ pc = "parsed"
        /\ LET raw == items[1]
               row == rows[1]
           IN  /\ raw.pk_unique_id.kind # "number" => row.pk_unique_id = NoPk
               /\ raw.content_table_id.kind # "valid" => row.content_table_id = NULL
               /\ raw.accepts_volunteers.value \notin {"yes", "0"} => row.accepts_volunteers = NULL
               /\ raw.specialties.kind # "list" => row.specialties = <<>>

----------------------------------------------------------------------------
\* the step that ends the persistence loop of a group and counts its rows
GroupCompletes ==
    /\ pc = "record"
    /\ metrics'.rows_processed # metrics.rows_processed

\* the drafts of the decision that row j (1-based) of the group was passed to
\* upsert_organization with
DraftsOfRow(j) ==
    {i \in 0..(Len(decision.merged_organizations) - 1) :
        \E k \in DOMAIN AssignedRows(decision, i, items[gi]) :
            AssignedRows(decision, i, items[gi])[k] = items[gi][j]}

\* C25: when the persistence loop of a group completes, every row of the
\* group has been passed to upsert_organization as a source row of exactly
\* one draft.
C25_EachRowFeedsOneRecord ==
    [][GroupCompletes => \A j \in DOMAIN items[gi] : Cardinality(DraftsOfRow(j)) = 1]_vars

----------------------------------------------------------------------------
\* the organization ids the child rows, provenance rows and ledger entries
\* of a database refer to
ReferencedIds(d) ==
    {s.organization_id : s \in d.organization_specialties}
        \cup {d.organization_facts[k].organization_id : k \in DOMAIN d.organization_facts}
        \cup {d.organization_sources[k].organization_id : k \in DOMAIN d.organization_sources}
        \cup {d.processed_rows[k].organization_id : k \in DOMAIN d.processed_rows}

\* C26: a draft persisted as an update targets a record that existed when
\* the group was entered and was a candidate or the linked record of the
\* group; and after a run every child row, provenance row and ledger entry
\* refers to a record that exists.
C26_UpdateTargetsValid ==
    /\ (pc \in {"embed", "record"} /\ di = 0 /\ decision.existing_organization_id # NoId) =>
          /\ decision.existing_organization_id \in OrgIds(hist.group_db)
          /\ decision.existing_organization_id \in Range(candidates) \cup {current_org}
    /\ (pc \in Terminal) => ReferencedIds(db) \subseteq OrgIds(db)

----------------------------------------------------------------------------
\* the ledger of d has an entry for the row that points to a record of d
\* whose provenance rows include the row
RecordedWithProvenance(d, row) ==
    \E k \in DOMAIN d.processed_rows :
        LET e == d.processed_rows[k]
        IN  /\ EntryKey(e) = RowKey(row)
            /\ e.organization_id \in OrgIds(d)
            /\ \E s \in DOMAIN d.organization_sources :
                  /\ d.organization_sources[s].organization_id = e.organization_id
                  /\ d.organization_sources[s].source_url = row.source_url
                  /\ d.organization_sources[s].content_table_id = row.content_table_id

\* C27: when a group completes and its rows are counted, every row of the
\* group has a ledger entry that points to an existing record whose
\* provenance rows include the row.
C27_CountedRowsRecorded ==
    [][GroupCompletes =>
          \A j \in DOMAIN items[gi] : RecordedWithProvenance(db', items[gi][j])]_vars

----------------------------------------------------------------------------
\* process_batch has returned a result (and not raised)
Returned == pc \in {"done", "halted"}

\* the rows of the groups whose persistence loop completed in this run: all
\* groups after a completed run, the groups before the halted one otherwise
CompletedRows ==
    IF pc = "done" THEN SeqSum([j \in DOMAIN items |-> Len(items[j])]) ELSE RowsBefore(gi)

\* C28: in a result returned by process_batch, completed or halted, the two
\* record counters add up to the upsert_organization calls that committed in
\* the run (new_organizations being the records added), appended_to_existing
\* is at most the number of groups entered, rows_processed is the number of
\* rows of the completed groups, and rate_limit_hit is false only if every
\* group was entered and completed.
C28_MetricsMatchWrites ==
    Returned =>
        /\ metrics.new_organizations + metrics.appended_to_existing
              = hist.inserts + hist.updates
        /\ metrics.new_organizations
              = Cardinality(db.organizations) - Cardinality(hist.run_db.organizations)
        /\ metrics.appended_to_existing <= Len(hist.order)
        /\ metrics.rows_processed = CompletedRows
        /\ ~metrics.rate_limit_hit =>
              /\ pc = "done"
              /\ Len(hist.order) = Len(items)
              /\ metrics.rows_processed = SeqSum([j \in DOMAIN items |-> Len(items[j])])

\* C28 witness: a halted run that had inserted a record, updated one and
\* counted the rows of a completed group before the rate limit.
C28_Witness ==
    /\ pc = "halted"
    /\ metrics.rate_limit_hit
    /\ metrics.new_organizations >= 1
    /\ metrics.appended_to_existing >= 1
    /\ metrics.rows_processed >= 1

----------------------------------------------------------------------------
\* C29: once a draft of a group has been written and embedded, and so when
\* the group is finished, the index holds an entry under the id of every
\* record written for the group so far.
C29_WrittenRecordsIndexed ==
    (pc = "record") =>
        /\ hist.group_written # {}
        /\ hist.group_written \subseteq StoreIds(store)

\* C29 witness: a later group of a run has searched the index and retrieved
\* as a candidate a record that an earlier group of the same run created,
\* and has written and indexed its own draft.
C29_Witness ==
    /\ pc = "record"
    /\ gi >= 2
    /\ hist.retrieval = "search"
    /\ \E k \in DOMAIN candidates : candidates[k] \notin OrgIds(hist.run_db)
    /\ hist.group_written \subseteq StoreIds(store)

----------------------------------------------------------------------------
(* The embedding cache under many embed_identity calls.  The texts are
   <<1>>, <<2>>, ...: nextId is the next text that was never embedded. *)

\* distinct texts that are embedded
MaxTexts == 3100

\* the texts of the next call: a text never seen, the oldest cached text,
\* and the first text again once an eviction has shortened the cache
CacheTexts ==
    (IF nextId <= MaxTexts THEN {<<nextId>>} ELSE {})
        \cup (IF cache # <<>> THEN {cache[1]} ELSE {})
        \cup (IF Len(cache) = (EMBED_CACHE_MAX \div 2) + 1 THEN {<<1>>} ELSE {})

InitCache ==
    /\ rows = <<>>
    /\ limit_groups = NoLimit
    /\ run = 0
    /\ pc = "cache"
    /\ db = EmptyDb
    /\ store = <<>>
    /\ cache = <<>>
    /\ nextId = 1
    /\ items = <<>>
    /\ gi = 0
    /\ current_org = NoId
    /\ candidates = <<>>
    /\ decision = NoDecision
    /\ group_id = NULL
    /\ di = 0
    /\ ri = 0
    /\ org_id = NoId
    /\ metrics = ZeroMetrics
    /\ hist = NoHist

\* embed_identity(text): a cached text returns at once; otherwise the
\* service is called and, when it answers, the cache evicts and stores
EmbedIdentity ==
    /\ pc = "cache"
    /\ \E text \in CacheTexts :
          \E outcome \in EmbedOutcomes(cache, text) :
             /\ cache' = IF outcome = "ok" THEN embed_cache_store(cache, text) ELSE cache
             /\ nextId' = IF outcome = "ok" /\ text = <<nextId>> THEN nextId + 1 ELSE nextId
    /\ UNCHANGED <<rows, limit_groups, run, pc, db, store, items, gi, current_org,
                   candidates, decision, group_id, di, ri, org_id, metrics, hist>>

NextCache == EmbedIdentity

SpecCache == InitCache /\ [][NextCache]_vars

\* C30: the cache never holds more than _EMBED_CACHE_MAX entries nor a key
\* twice; a call that stores a key in a full cache first removes the
\* oldest-inserted half, keeps the rest in order and puts the new key last;
\* a call that stores a key in a cache that is not full only appends it.
C30_BoundedCache ==
    [][/\ Len(cache') <= EMBED_CACHE_MAX
       /\ (cache' # cache) =>
             LET half == EMBED_CACHE_MAX \div 2
                 kept == IF Len(cache) >= EMBED_CACHE_MAX THEN Len(cache) - half ELSE Len(cache)
                 skip == IF Len(cache) >= EMBED_CACHE_MAX THEN half ELSE 0
             IN  /\ Len(cache') = kept + 1
                 /\ \A k \in 1..kept : cache'[k] = cache[k + skip]
                 /\ \A k \in 1..kept : cache'[kept + 1] # cache'[k]
      ]_vars

\* C30 witness: the cache was full and a new key has been stored: the
\* oldest half is gone and the cache holds the newer half and the new key.
C30_Witness ==
    /\ pc = "cache"
    /\ nextId = EMBED_CACHE_MAX + 2
    /\ Len(cache) = (EMBED_CACHE_MAX \div 2) + 1
    /\ cache[1] = <<(EMBED_CACHE_MAX \div 2) + 1>>
    /\ cache[Len(cache)] = <<EMBED_CACHE_MAX + 1>>

====
